---- MODULE Spec2Model ----
(***************************************************************************)
(* State-machine model of the swiftnet virtual-thread scheduler            *)
(* (vthread_scheduler, vthread_base, io_awaitable, event_loop).            *)
(*                                                                         *)
(* Threads of the program and how they appear here:                        *)
(*   - worker(i)            : wpc[i] in {"none","idle","sleep","run","ret"} *)
(*                            ("terminated": std::terminate ended the      *)
(*                            process, see BodyThrow)                      *)
(*   - the coroutine body   : runs between "run" and "ret" of its worker;  *)
(*                            at "ret" it has reached a suspension point   *)
(*                            and h.resume() is returning to the worker    *)
(*   - io_awaitable threads : bg[h][fd] detached select() pollers          *)
(*   - the cleanup thread   : Sweep                                        *)
(*   - API callers          : Start, Spawn*, ResumeFromIoCall, CancelIo,   *)
(*                            StopBegin/StopFinish                         *)
(* In Spec and SpecIo a run queue is a sequence with atomic push and pop.  *)
(* SpecPop takes one mpsc_queue statement by statement instead.            *)
(* A destroyed coroutine frame is freed memory: every later use of the     *)
(* handle is undefined behaviour.  done() on it may read either value; a   *)
(* resume may run the stale frame as if it were intact.  A crash is the    *)
(* third outcome; it only ends a behaviour, which every specification here *)
(* already allows by stuttering.                                           *)
(***************************************************************************)
EXTENDS Integers, Sequences, FiniteSets, TLC

\* ---------------------------------------------------------------- bounds
NCores     == 2    \* workers created by start(2)
NTasks     == 1    \* coroutines the environment may spawn
MaxResumes == 2    \* h.resume() calls in one behaviour; the last one runs its body to the end
MaxEnv     == 1    \* environment events: API calls from foreign threads, timer expiries
MaxPush    == 3    \* push() calls on the queue of SpecPop and SpecMpsc
MaxPops    == 3    \* pop() calls on it that found a node
MaxPoll    == 2    \* poll requests pending on one descriptor in SpecPoller
MaxGauge   == 4    \* largest load gauge SpecBalance starts from

\* ------------------------------------------------------- program constants
NoHandle == 0            \* vthread_base() : coro_{}
NoNode   == 0            \* nullptr
READABLE == 1
WRITABLE == 2
POLLIN   == 1
POLLOUT  == 4

Cores   == 0 .. (NCores - 1)
Handles == 1 .. NTasks
Fds     == {0, 3}                 \* 0: capture_fd <= 0 is invalid; 3: an open descriptor
\* the awaits a task body makes: a read on an open descriptor (tcp_socket.cpp:74),
\* a write on a descriptor that is not valid (tcp_socket.cpp:103)
IoAwaits == {<< 3, POLLIN >>, << 0, POLLOUT >>}

\* the queue of SpecPop: its nodes in order of allocation (node 1 is the dummy
\* of the constructor, node k + 1 is made by the k-th push and carries task k)
\* and the two threads that pop it
QTasks  == 1 .. MaxPush
Nodes   == 1 .. (MaxPush + 1)
Poppers == {"owner", "thief"}
\* the threads that push in SpecMpsc, and the one whose k-th push carries task h
Producers == {"a", "b"}
ProducerOf(h) == IF h % 2 = 1 THEN "a" ELSE "b"

\* the threads of SpecLocks: the workers, a polling thread of io_awaitable, a
\* foreign thread and the cleanup thread
Threads == {"w0", "w1", "bg", "api", "sweeper"}

Reasons == {"NONE", "IO_WAIT", "YIELD", "COMPLETED", "PREEMPTED"}

VARIABLES
    \* the scheduler object and the coroutine heap (see St)
    running,            \* running_ (cleanup_running_ follows it)
    stop_pc,            \* progress of stop(): "none" | "joining" | "done"
    queues,             \* queues_[i] : sequence of task handles
    core_loads,         \* core_loads_[i] : uint32 bit pattern
    io_operations,      \* io_operations_ : handle -> [fd, events, expired]
    vthread_contexts,   \* vthread_contexts_ : handle -> VThreadContext
    poller,             \* event_loop poll requests: fd -> sequence of masks
    stats,              \* stats_
    destroys,           \* number of coro_.destroy() calls on h
    \* the coroutines
    frame,              \* coroutine frame: "unborn" | "suspended" | "final"
    resumes,            \* number of times the body of h was resumed
    notified,           \* number of notify_completion(h) calls
    \* the threads
    wpc,                \* worker position
    wtask,              \* worker local `task`
    wvictim,            \* queue the worker popped `task` from
    bg,                 \* live io_awaitable polling threads: h -> fd -> count
    result,             \* `result` argument of the latest resume_from_io call (0: none yet)
    env,                \* environment events used so far
    scheduling,         \* tasks whose schedule call has pushed them and not yet counted them
    io_call,            \* worker -> << fd, events >> of the suspend_for_io call it is inside (<< >>: none)
    \* one mpsc_queue<vthread> seen at the level of its nodes (see SpecPop)
    q_head,             \* head_
    q_tail,             \* tail_
    q_next,             \* node -> node::next (NoNode: nullptr)
    q_value,            \* node -> coro_ of node::value (NoHandle: moved from, or the dummy)
    q_deleted,          \* node -> number of `delete` calls on it
    q_taken,            \* task -> number of pop() calls that returned it
    push_pc,            \* the producer inside push(): "idle" | "link"
    push_prev,          \* its local `prev`
    pop_pc,             \* a consumer inside pop(): "idle" | "load" | "clear" | "unlink"
    pop_next,           \* its local `next`
    pop_out,            \* its `out`
    prod_pc,            \* producer -> position inside push(): "idle" | "link"
    prod_prev,          \* producer -> its local `prev`
    prod_node,          \* producer -> its local `n`
    pushed,             \* tasks whose push() has been entered
    q_order,            \* the tasks pop() has returned, in the order of the returns
    \* the mutexes of the scheduler seen through the calls that take them (see SpecLocks)
    lk_op,              \* thread -> the call it is inside (<< >>: none)
    lk_idx              \* thread -> number of lock events of that call it has passed

svars == << running, stop_pc, queues, core_loads, io_operations, vthread_contexts,
            poller, stats, destroys >>
tvars == << frame, resumes, notified >>
wvars == << wpc, wtask, wvictim >>
evars == << bg, result, env, scheduling, io_call >>
pvars == << prod_pc, prod_prev, prod_node, pushed >>
qvars == << q_head, q_tail, q_next, q_value, q_deleted, q_taken,
           push_pc, push_prev, pop_pc, pop_next, pop_out, pvars, q_order >>
lvars == << lk_op, lk_idx >>
mvars == << svars, tvars, wvars, evars, lvars >>
vars == << mvars, qvars >>

\* ------------------------------------------------------------ map helpers
MapPut(m, k, v) == [x \in (DOMAIN m) \cup {k} |-> IF x = k THEN v ELSE m[x]]
MapDel(m, k)    == [x \in (DOMAIN m) \ {k} |-> m[x]]
EmptyMap        == [x \in {} |-> 0]

RECURSIVE Count(_, _)
Count(h, s) == IF s = << >> THEN 0
               ELSE (IF Head(s) = h THEN 1 ELSE 0) + Count(h, Tail(s))

RECURSIVE SumOver(_, _)
SumOver(f, S) == IF S = {} THEN 0
                 ELSE LET x == CHOOSE y \in S : TRUE IN f[x] + SumOver(f, S \ {x})

QueuedCount(h) == SumOver([i \in Cores |-> Count(h, queues[i])], Cores)

TotalResumes == SumOver(resumes, Handles)

\* ------------------------------------------------------ the scheduler state
\* The fields of vthread_scheduler that the handlers below read and write,
\* with the destroy count of every coroutine frame.  A handler is a function
\* from this record to the record it leaves behind.
St == [running |-> running, stop_pc |-> stop_pc, queues |-> queues,
       core_loads |-> core_loads, io_operations |-> io_operations,
       vthread_contexts |-> vthread_contexts, poller |-> poller, stats |-> stats,
       destroys |-> destroys]

Apply(r) ==
    /\ running' = r.running
    /\ stop_pc' = r.stop_pc
    /\ queues' = r.queues
    /\ core_loads' = r.core_loads
    /\ io_operations' = r.io_operations
    /\ vthread_contexts' = r.vthread_contexts
    /\ poller' = r.poller
    /\ stats' = r.stats
    /\ destroys' = r.destroys

\* std::coroutine_handle::done().  On a destroyed frame the read is of freed
\* memory and may yield either value.
DoneValues(h) == IF destroys[h] > 0 THEN BOOLEAN ELSE {frame[h] = "final"}

\* A core load is a uint32.  It is held here as its 32-bit pattern read as a
\* two's-complement integer: 0, 1, 2, ... are themselves and -k stands for
\* 2^32 - k, so that 0 - 1 is the pattern of UINT32_MAX.  ULess is the unsigned
\* order of two patterns.
ULess(a, b) == IF (a >= 0) = (b >= 0) THEN a < b ELSE b < 0

\* a scan that moves to a later core on an equal load as well
RECURSIVE scan_last_min_core(_, _, _, _)
scan_last_min_core(loads, i, best_core, min_load) ==
    IF i >= NCores THEN best_core
    ELSE IF ~ULess(min_load, loads[i])
         THEN scan_last_min_core(loads, i + 1, i, loads[i])
         ELSE scan_last_min_core(loads, i + 1, best_core, min_load)

select_last_min_core(loads) == scan_last_min_core(loads, 1, 0, loads[0])

\* the loop of select_best_core(): cores i, i + 1, ... are compared, as
\* unsigned values, with the minimum found so far
RECURSIVE scan_min_core(_, _, _, _)
scan_min_core(loads, i, best_core, min_load) ==
    IF i >= NCores THEN best_core
    ELSE IF ULess(loads[i], min_load)
         THEN scan_min_core(loads, i + 1, i, loads[i])
         ELSE scan_min_core(loads, i + 1, best_core, min_load)

\* select_best_core(): the scan starts from core 0 and its load
select_best_core(loads) == scan_min_core(loads, 1, 0, loads[0])

\* fetch_add / fetch_sub on std::atomic<uint32_t>
LoadInc(loads, c) == [loads EXCEPT ![c] = @ + 1]
LoadDec(loads, c) == [loads EXCEPT ![c] = @ - 1]

\* mpsc_queue::push
push(qs, c, h) == [qs EXCEPT ![c] = Append(@, h)]

\* event_loop::add on the io_uring backend: one more poll request for fd
PollerAdd(p, fd, mask) == [p EXCEPT ![fd] = Append(@, mask)]
\* event_loop::del: io_uring_prep_poll_remove cancels one request of fd
PollerDel(p, fd) == [p EXCEPT ![fd] = IF @ = << >> THEN @ ELSE Tail(@)]

\* event_loop_ is set by start() and reset at the end of stop()
has_event_loop(s) == s.running \/ s.stop_pc = "joining"

\* ~vthread_base(): coro_.destroy()
Destroy(s, h) == [s EXCEPT !.destroys[h] = @ + 1]

RECURSIVE DestroyAll(_, _)
DestroyAll(s, hs) == IF hs = << >> THEN s ELSE DestroyAll(Destroy(s, Head(hs)), Tail(hs))

\* mount_vthread(h, core)
mount_vthread(s, h, core) ==
    [s EXCEPT !.vthread_contexts =
        MapPut(@, h, [suspend_reason |-> "NONE", is_mounted |-> TRUE,
                      core_affinity |-> core])]

SetReason(s, h, r) ==
    IF h \in DOMAIN s.vthread_contexts
    THEN [s EXCEPT !.vthread_contexts[h].suspend_reason = r] ELSE s

\* a notify_completion that marks the context and leaves it in the map
notify_marks_only(s, h) == SetReason(s, h, "COMPLETED")

\* notify_completion(h): the context is marked COMPLETED and erased
notify_completion(s, h) ==
    IF h \in DOMAIN s.vthread_contexts
    THEN [s EXCEPT !.vthread_contexts = MapDel(@, h)] ELSE s

\* yield_current(h); d is its h.done() read
yield_current(s, h, d) == IF d THEN s ELSE SetReason(s, h, "YIELD")

\* schedule(t).  When the scheduler is not running the call returns at once
\* and the by-value parameter t is destroyed with the task it owns.
\* Its two halves: the push with the load increment, then the statistics.
schedule_enqueue(s, h, core) ==
    [s EXCEPT !.queues = push(@, core, h), !.core_loads = LoadInc(@, core)]

\* a schedule() that counts the call twice
schedule_count_twice(s) == [s EXCEPT !.stats.total_scheduled = @ + 2]

schedule_count(s) == [s EXCEPT !.stats.total_scheduled = @ + 1]

\* a schedule() without its running check
schedule_unchecked(s, h) ==
    schedule_count(schedule_enqueue(s, h, select_best_core(s.core_loads)))

schedule(s, h) ==
    IF ~s.running THEN Destroy(s, h)
    ELSE schedule_count(schedule_enqueue(s, h, select_best_core(s.core_loads)))

\* schedule_with_affinity(t, preferred_core)
affinity_core(preferred_core) ==
    IF preferred_core < NCores - 1 THEN preferred_core ELSE NCores - 1

schedule_with_affinity(s, h, preferred_core) ==
    IF ~s.running THEN Destroy(s, h)
    ELSE schedule_count(schedule_enqueue(s, h, affinity_core(preferred_core)))

\* suspend_for_io(h, fd, events) past its h.done() test, one statement at a
\* time; pc tells how far the call has come: "run" (nothing done yet), "io1",
\* "io2", "io3"
suspend_step_count_first(s, pc, h, fd, events) ==
    CASE pc = "run" -> [s EXCEPT !.stats.total_io_suspended = @ + 1]
      [] pc = "io1" -> IF h \in DOMAIN s.io_operations THEN s
                       ELSE [s EXCEPT !.io_operations =
                               MapPut(@, h, [fd |-> fd, events |-> events, expired |-> FALSE])]
      [] pc = "io2" -> SetReason(s, h, "IO_WAIT")
      [] pc = "io3" -> IF has_event_loop(s)
                       THEN [s EXCEPT !.poller = PollerAdd(@, fd, events)] ELSE s

suspend_step(s, pc, h, fd, events) ==
    CASE pc = "run" -> IF h \in DOMAIN s.io_operations THEN s   \* emplace keeps the old entry
                       ELSE [s EXCEPT !.io_operations =
                               MapPut(@, h, [fd |-> fd, events |-> events, expired |-> FALSE])]
      [] pc = "io1" -> SetReason(s, h, "IO_WAIT")
      [] pc = "io2" -> IF has_event_loop(s)
                       THEN [s EXCEPT !.poller = PollerAdd(@, fd, events)] ELSE s
      [] pc = "io3" -> [s EXCEPT !.stats.total_io_suspended = @ + 1]

suspend_next(pc) ==
    CASE pc = "run" -> "io1" [] pc = "io1" -> "io2" [] pc = "io2" -> "io3" [] pc = "io3" -> "ret"

\* suspend_for_io(h, fd, events); d is its h.done() read
suspend_for_io(s, h, fd, events, d) ==
    IF d THEN s
    ELSE LET s1 == suspend_step(s, "run", h, fd, events)
             s2 == suspend_step(s1, "io1", h, fd, events)
             s3 == suspend_step(s2, "io2", h, fd, events)
         IN suspend_step(s3, "io3", h, fd, events)

\* the registry take that resume_from_io and cancel_io_operation share:
\* find, event_loop_->del(fd), erase
TakeIo(s, h) ==
    IF h \in DOMAIN s.io_operations
    THEN [s EXCEPT !.poller = IF has_event_loop(s)
                              THEN PollerDel(@, s.io_operations[h].fd) ELSE @,
                   !.io_operations = MapDel(@, h)]
    ELSE s

\* a resume_from_io that pushes the task whether or not the scheduler runs
resume_from_io_always_push(s, h, d1, d2) ==
    IF d1 THEN s
    ELSE LET s1 == TakeIo(s, h)
             s2 == SetReason(s1, h, "NONE")
             s3 == IF d2 THEN s2
                   ELSE schedule_count(schedule_enqueue(s2, h, select_best_core(s2.core_loads)))
         IN [s3 EXCEPT !.stats.total_resumed = @ + 1]

\* resume_from_io(h, result); d1 and d2 are its two h.done() reads (lines 388, 430)
resume_from_io(s, h, d1, d2) ==
    IF d1 THEN s
    ELSE LET s1 == TakeIo(s, h)
             s2 == SetReason(s1, h, "NONE")
             s3 == IF d2 THEN s2 ELSE schedule(s2, h)
         IN [s3 EXCEPT !.stats.total_resumed = @ + 1]

\* a cancel that resumes the task it finds registered, as resume_from_io does
cancel_and_resume(s, h) ==
    IF h \in DOMAIN s.io_operations THEN resume_from_io(s, h, FALSE, FALSE) ELSE s

\* cancel_io_operation(h)
cancel_io_operation(s, h) == TakeIo(s, h)

\* the handles of set S, each once, as a sequence
RECURSIVE SeqOf(_)
SeqOf(S) == IF S = {} THEN << >>
            ELSE LET x == CHOOSE y \in S : TRUE IN << x >> \o SeqOf(S \ {x})

\* cleanup_expired_io_operations(); dn[h] is the h.done() read for handle h
cleanup_expired_io_operations(s, dn) ==
    LET expired == {h \in DOMAIN s.io_operations : s.io_operations[h].expired}
        s1 == [s EXCEPT !.io_operations = [h \in (DOMAIN @) \ expired |-> @[h]]]
    IN DestroyAll(s1, SeqOf({h \in expired : ~dn[h]}))

\* balance_load(): first index of the maximum and of the minimum load
MaxCore(loads) == CHOOSE c \in Cores :
                    /\ \A d \in Cores : ~ULess(loads[c], loads[d])
                    /\ \A d \in Cores : loads[d] = loads[c] => c <= d
MinCore(loads) == select_best_core(loads)

ShouldMigrate(loads) == ULess(loads[MinCore(loads)] + 2, loads[MaxCore(loads)])

\* a balance_load that migrates as soon as the loads differ
balance_load_eager(s) ==
    LET mx == MaxCore(s.core_loads)
        mn == MinCore(s.core_loads)
    IN IF ULess(s.core_loads[mn], s.core_loads[mx]) /\ s.queues[mx] # << >>
       THEN [s EXCEPT !.queues = push([@ EXCEPT ![mx] = Tail(@)], mn, Head(s.queues[mx])),
                      !.core_loads = LoadInc(LoadDec(@, mx), mn)]
       ELSE s

balance_load(s) ==
    LET mx == MaxCore(s.core_loads)
        mn == MinCore(s.core_loads)
    IN IF ShouldMigrate(s.core_loads) /\ s.queues[mx] # << >>
       THEN [s EXCEPT !.queues = push([@ EXCEPT ![mx] = Tail(@)], mn, Head(s.queues[mx])),
                      !.core_loads = LoadInc(LoadDec(@, mx), mn)]
       ELSE s

\* ------------------------------------------------------------ initial state
Init ==
    /\ running = FALSE
    /\ stop_pc = "none"
    /\ queues = [i \in Cores |-> << >>]
    /\ core_loads = [i \in Cores |-> 0]
    /\ io_operations = EmptyMap
    /\ vthread_contexts = EmptyMap
    /\ poller = [fd \in Fds |-> << >>]
    /\ stats = [total_scheduled |-> 0, total_io_suspended |-> 0, total_resumed |-> 0,
                work_stolen |-> 0, context_switches |-> 0,
                per_core_executed |-> [i \in Cores |-> 0]]
    /\ destroys = [h \in Handles |-> 0]
    /\ frame = [h \in Handles |-> "unborn"]
    /\ resumes = [h \in Handles |-> 0]
    /\ notified = [h \in Handles |-> 0]
    /\ wpc = [i \in Cores |-> "none"]
    /\ wtask = [i \in Cores |-> NoHandle]
    /\ wvictim = [i \in Cores |-> i]
    /\ bg = [h \in Handles |-> [fd \in Fds |-> 0]]
    /\ result = 0
    /\ env = 0
    /\ scheduling = {}
    /\ io_call = [i \in Cores |-> << >>]
    /\ q_head = 1 /\ q_tail = 1                      \* mpsc_queue(): the dummy node
    /\ q_next = [n \in Nodes |-> NoNode]
    /\ q_value = [n \in Nodes |-> NoHandle]
    /\ q_deleted = [n \in Nodes |-> 0]
    /\ q_taken = [h \in QTasks |-> 0]
    /\ prod_pc = [p \in Producers |-> "idle"] /\ prod_prev = [p \in Producers |-> NoNode]
    /\ prod_node = [p \in Producers |-> NoNode]
    /\ pushed = {} /\ q_order = << >>
    /\ lk_op = [t \in Threads |-> << >>]
    /\ lk_idx = [t \in Threads |-> 0]
    /\ push_pc = "idle" /\ push_prev = NoNode
    /\ pop_pc = [p \in Poppers |-> "idle"]
    /\ pop_next = [p \in Poppers |-> NoNode]
    /\ pop_out = [p \in Poppers |-> NoHandle]

\* ------------------------------------------------------------- API callers
\* a start() without the running_ check: the gauges are created again
start_unconditionally(s) ==
    [s EXCEPT !.running = TRUE, !.core_loads = [i \in Cores |-> 0]]

\* start(threads): returns at once on a running scheduler; otherwise the
\* queues, the gauges (at 0), the event loop and the workers are created
start(s) ==
    IF s.running THEN s
    ELSE [s EXCEPT !.running = TRUE, !.core_loads = [i \in Cores |-> 0]]

\* a start() call, on a scheduler that has not been stopped
Start ==
    /\ stop_pc = "none"
    /\ Apply(start(St))
    /\ wpc' = IF running THEN wpc ELSE [i \in Cores |-> "idle"]
    /\ UNCHANGED << qvars, lvars, tvars, wtask, wvictim, evars >>

\* A coroutine is created (initial_suspend is suspend_always) and handed to
\* schedule(), which runs up to its wake_worker call; on a scheduler that is
\* not running it returns at once and its parameter destroys the task.
Spawn(h) ==
    /\ frame[h] = "unborn"
    /\ frame' = [frame EXCEPT ![h] = "suspended"]
    /\ IF running
       THEN /\ Apply(schedule_enqueue(St, h, select_best_core(core_loads)))
            /\ scheduling' = scheduling \cup {h}
       ELSE /\ Apply(Destroy(St, h))
            /\ UNCHANGED scheduling
    /\ UNCHANGED << qvars, lvars, resumes, notified, wvars, bg, result, env, io_call >>

\* the whole schedule() call of a new coroutine taken as one step
Schedule(h) ==
    /\ frame[h] = "unborn"
    /\ frame' = [frame EXCEPT ![h] = "suspended"]
    /\ Apply(schedule(St, h))
    /\ UNCHANGED << qvars, lvars, resumes, notified, wvars, evars >>

\* the same for schedule_with_affinity()
SpawnAffinity(h, c) ==
    /\ frame[h] = "unborn"
    /\ frame' = [frame EXCEPT ![h] = "suspended"]
    /\ IF running
       THEN /\ Apply(schedule_enqueue(St, h, affinity_core(c)))
            /\ scheduling' = scheduling \cup {h}
       ELSE /\ Apply(Destroy(St, h))
            /\ UNCHANGED scheduling
    /\ UNCHANGED << qvars, lvars, resumes, notified, wvars, bg, result, env, io_call >>

\* the end of that schedule call: stats_.total_scheduled++
ScheduleCount(h) ==
    /\ h \in scheduling
    /\ scheduling' = scheduling \ {h}
    /\ Apply(schedule_count(St))
    /\ UNCHANGED << qvars, lvars, tvars, wvars, bg, result, env, io_call >>

\* resume_from_io(h, POLLIN) called through the public interface by a
\* readiness adapter, for a task that has awaited I/O; the call may repeat
\* one the polling thread makes
ResumeFromIoCall(h) ==
    /\ frame[h] # "unborn"
    /\ stats.total_io_suspended > 0
    /\ env < MaxEnv
    /\ env' = env + 1
    /\ result' = POLLIN
    /\ \E d1 \in DoneValues(h), d2 \in DoneValues(h) : Apply(resume_from_io(St, h, d1, d2))
    /\ UNCHANGED << qvars, lvars, tvars, wvars, bg, scheduling, io_call >>

\* what the select() loop of an io_awaitable thread ends with, and the result
\* it hands to resume_from_io
PollOutcomes(fd) == IF fd <= 0 THEN {"invalid"} ELSE {"ready", "error", "timeout"}
ResultOf(outcome) == CASE outcome = "ready"   -> 1
                       [] outcome = "invalid" -> -1
                       [] outcome = "error"   -> -1
                       [] outcome = "timeout" -> -2

\* io_awaitable::res_: initialised to 0 in the class; neither await_suspend nor
\* its polling thread nor resume_from_io writes it
res_ == 0

\* io_awaitable::await_resume() for a value r of res_: what the co_await
\* expression yields, or "throw" for the std::runtime_error of -1, -3 and -4
await_resume(r) == IF r \in {-1, -3, -4} THEN "throw" ELSE r

\* the detached thread started by io_awaitable::await_suspend ends its poll
BgFire(h, fd, outcome) ==
    /\ bg[h][fd] > 0
    /\ outcome \in PollOutcomes(fd)
    /\ bg' = [bg EXCEPT ![h][fd] = @ - 1]
    /\ result' = ResultOf(outcome)
    /\ \E d1 \in DoneValues(h), d2 \in DoneValues(h) : Apply(resume_from_io(St, h, d1, d2))
    /\ UNCHANGED << qvars, lvars, tvars, wvars, env, scheduling, io_call >>

\* cancel_io_operation(h) called through the public interface
CancelIo(h) ==
    /\ frame[h] # "unborn"
    /\ stats.total_io_suspended > 0
    /\ env < MaxEnv
    /\ env' = env + 1
    /\ Apply(cancel_io_operation(St, h))
    /\ UNCHANGED << qvars, lvars, tvars, wvars, bg, result, scheduling, io_call >>

\* more than 30 seconds pass: every registered operation is now expired
Elapse ==
    /\ env < MaxEnv
    /\ \E h \in DOMAIN io_operations : ~io_operations[h].expired
    /\ env' = env + 1
    /\ io_operations' = [h \in DOMAIN io_operations |-> [io_operations[h] EXCEPT !.expired = TRUE]]
    /\ UNCHANGED << qvars, lvars, running, stop_pc, queues, core_loads, vthread_contexts, poller, stats,
                    destroys, tvars, wvars, bg, result, scheduling, io_call >>

\* the cleanup thread
Sweep ==
    /\ running
    /\ \E h \in DOMAIN io_operations : io_operations[h].expired
    /\ \E dn \in [Handles -> BOOLEAN] :
         /\ \A h \in Handles : dn[h] \in DoneValues(h)
         /\ Apply(cleanup_expired_io_operations(St, dn))
    /\ UNCHANGED << qvars, lvars, tvars, wvars, evars >>

\* ----------------------------------------------------------------- workers
CountExecuted(s, i, stolen) ==
    [s EXCEPT !.stats.per_core_executed[i] = @ + 1,
              !.stats.context_switches = IF stolen THEN @ ELSE @ + 1,
              !.stats.work_stolen = IF stolen THEN @ + 1 ELSE @]

\* Worker i pops h from queues_[from] (its own queue in worker(), a victim's
\* in try_steal_work()) and takes it up to the h.resume() of execute_vthread.
\*   d1  : task.is_done() after the pop
\*   d2  : h.done() at the head of execute_vthread
\*   pre : should_preempt_vthread()
Dispatch(i, from, d1, d2, pre) ==
    LET h  == Head(queues[from])
        s0 == [St EXCEPT !.queues[from] = Tail(@)]
        s1 == mount_vthread(s0, h, i)
    IN
    /\ running /\ wpc[i] = "idle" /\ queues[from] # << >>
    /\ d1 \in DoneValues(h) /\ d2 \in DoneValues(h)
    /\ wvictim' = [wvictim EXCEPT ![i] = from]
    /\ UNCHANGED << qvars, lvars >>
    /\ IF d1
       THEN \* not run: the local `task` goes out of scope and destroys the frame
            /\ Apply(Destroy(s0, h))
            /\ UNCHANGED << tvars, wpc, wtask, evars >>
       ELSE IF d2
       THEN \* COMPLETED without a resume
            /\ Apply(Destroy(CountExecuted([s1 EXCEPT !.core_loads = LoadDec(@, i)],
                                           i, from # i), h))
            /\ UNCHANGED << tvars, wpc, wtask, evars >>
       ELSE IF pre
       THEN \* PREEMPTED without a resume: pushed back on the worker's own queue
            /\ env < MaxEnv
            /\ env' = env + 1
            /\ Apply(CountExecuted([s1 EXCEPT !.queues = push(@, i, h)], i, from # i))
            /\ UNCHANGED << tvars, wpc, wtask, bg, result, scheduling, io_call >>
       ELSE \* h.resume()
            /\ TotalResumes < MaxResumes
            /\ Apply(s1)
            /\ resumes' = [resumes EXCEPT ![h] = @ + 1]
            /\ wpc' = [wpc EXCEPT ![i] = "run"]
            /\ wtask' = [wtask EXCEPT ![i] = h]
            /\ UNCHANGED << frame, notified, evars >>

\* worker(core): the pop of its own queue
WPopLocal(i) ==
    /\ queues[i] # << >>
    /\ \E d1 \in BOOLEAN, d2 \in BOOLEAN, pre \in BOOLEAN : Dispatch(i, i, d1, d2, pre)

\* try_steal_work(core): reached when the local pop found nothing
WSteal(i, victim) ==
    /\ victim # i
    /\ queues[i] = << >>
    /\ \E d1 \in BOOLEAN, d2 \in BOOLEAN, pre \in BOOLEAN : Dispatch(i, victim, d1, d2, pre)

\* ------------------------------------------------- the body of a coroutine
\* the body may suspend again only while a later resume can still run it
MaySuspend(h) == frame[h] = "suspended" /\ TotalResumes < MaxResumes

\* the body runs to co_return: final_suspend calls notify_completion
BodyComplete(i) ==
    LET h == wtask[i] IN
    /\ wpc[i] = "run" /\ frame[h] = "suspended"
    /\ frame' = [frame EXCEPT ![h] = "final"]
    /\ notified' = [notified EXCEPT ![h] = @ + 1]
    /\ Apply(notify_completion(St, h))
    /\ wpc' = [wpc EXCEPT ![i] = "ret"]
    /\ UNCHANGED << qvars, lvars, resumes, wtask, wvictim, evars >>

\* the body suspends on an awaitable the scheduler knows nothing of; a resume
\* of a frame already at its final suspend point returns here too
BodySuspend(i) ==
    LET h == wtask[i] IN
    /\ wpc[i] = "run"
    /\ frame[h] = "final" \/ MaySuspend(h)
    /\ wpc' = [wpc EXCEPT ![i] = "ret"]
    /\ UNCHANGED << qvars, lvars, svars, tvars, wtask, wvictim, evars >>

\* the body lets an exception escape: the coroutine calls
\* promise_type::unhandled_exception(), which is std::terminate(); the process
\* ends with all its threads
BodyThrow(i) ==
    LET h == wtask[i] IN
    /\ wpc[i] = "run" /\ frame[h] = "suspended"
    /\ wpc' = [j \in Cores |-> "terminated"]
    /\ UNCHANGED << qvars, lvars, svars, tvars, wtask, wvictim, evars >>

\* the body calls yield_current(h) and suspends
BodyYield(i) ==
    LET h == wtask[i] IN
    /\ wpc[i] = "run" /\ MaySuspend(h)
    /\ \E d \in DoneValues(h) : Apply(yield_current(St, h, d))
    /\ wpc' = [wpc EXCEPT ![i] = "ret"]
    /\ UNCHANGED << qvars, lvars, tvars, wtask, wvictim, evars >>

\* the body does co_await io_awaitable(fd, events): await_suspend registers
\* the wait and starts the polling thread
BodyAwaitIo(i, fd, events) ==
    LET h == wtask[i] IN
    /\ wpc[i] = "run" /\ MaySuspend(h)
    /\ \E d \in DoneValues(h) : Apply(suspend_for_io(St, h, fd, events, d))
    /\ bg' = [bg EXCEPT ![h][fd] = @ + 1]
    /\ wpc' = [wpc EXCEPT ![i] = "ret"]
    /\ UNCHANGED << qvars, lvars, tvars, wtask, wvictim, result, env, scheduling, io_call >>

\* the same co_await taken statement by statement: the entry of
\* suspend_for_io with its first statement ...
SuspendEnter(i, fd, events) ==
    LET h == wtask[i] IN
    /\ wpc[i] = "run" /\ MaySuspend(h)
    /\ \E d \in DoneValues(h) :
          IF d
          THEN /\ wpc' = [wpc EXCEPT ![i] = "ret"]
               /\ bg' = [bg EXCEPT ![h][fd] = @ + 1]
               /\ UNCHANGED << svars, io_call >>
          ELSE /\ Apply(suspend_step(St, "run", h, fd, events))
               /\ wpc' = [wpc EXCEPT ![i] = suspend_next("run")]
               /\ io_call' = [io_call EXCEPT ![i] = << fd, events >>]
               /\ UNCHANGED bg
    /\ UNCHANGED << qvars, lvars, tvars, wtask, wvictim, result, env, scheduling >>

\* ... and each later statement; after the last one await_suspend starts the
\* polling thread and the resume returns
SuspendStep(i) ==
    LET h == wtask[i] IN
    /\ wpc[i] \in {"io1", "io2", "io3"}
    /\ Apply(suspend_step(St, wpc[i], h, io_call[i][1], io_call[i][2]))
    /\ wpc' = [wpc EXCEPT ![i] = suspend_next(wpc[i])]
    /\ IF wpc[i] = "io3"
       THEN /\ bg' = [bg EXCEPT ![h][io_call[i][1]] = @ + 1]
            /\ io_call' = [io_call EXCEPT ![i] = << >>]
       ELSE UNCHANGED << bg, io_call >>
    /\ UNCHANGED << qvars, lvars, tvars, wtask, wvictim, result, env, scheduling >>

\* execute_vthread after h.resume() has returned; d is its h.done() read
ObservedReason(s, h, d) ==
    IF d THEN "COMPLETED"
    ELSE IF h \in DOMAIN s.vthread_contexts THEN s.vthread_contexts[h].suspend_reason
    ELSE "NONE"

\* a switch that pushes the task back on the worker's queue whatever the
\* suspend reason
requeue_always(s, i, h, stolen, d, d3) ==
    CountExecuted([s EXCEPT !.queues = push(@, i, h)], i, stolen)

\* the switch on the suspend reason in worker() (stolen = FALSE) and in
\* try_steal_work() (stolen = TRUE), with the end of the scope of `task`;
\* d3 is the task.is_done() read of case NONE
AfterResume(s, i, h, stolen, d, d3) ==
    LET reason == ObservedReason(s, h, d)
        s1 == CASE reason = "NONE" ->
                     IF ~d3 THEN [s EXCEPT !.queues = push(@, i, h)]
                     ELSE IF stolen THEN [s EXCEPT !.core_loads = LoadDec(@, i)]
                     ELSE s
                [] reason = "IO_WAIT"   -> s
                [] reason = "YIELD"     -> schedule(s, h)
                [] reason = "COMPLETED" -> [s EXCEPT !.core_loads = LoadDec(@, i)]
                [] reason = "PREEMPTED" -> [s EXCEPT !.queues = push(@, i, h)]
        moved == \/ reason = "NONE" /\ ~d3
                 \/ reason = "YIELD"
                 \/ reason = "PREEMPTED"
        s2 == CountExecuted(s1, i, stolen)
    IN IF moved THEN s2 ELSE Destroy(s2, h)

WFinish(i) ==
    LET h == wtask[i] IN
    /\ wpc[i] = "ret"
    /\ \E d \in DoneValues(h), d3 \in DoneValues(h) :
          Apply(AfterResume(St, i, h, wvictim[i] # i, d, d3))
    /\ wpc' = [wpc EXCEPT ![i] = "idle"]
    /\ wtask' = [wtask EXCEPT ![i] = NoHandle]
    /\ UNCHANGED << qvars, lvars, tvars, wvictim, evars >>

\* sleep_worker(core): the worker found no work and parks on its condition
\* variable
WSleep(i) ==
    /\ running /\ wpc[i] = "idle" /\ queues[i] = << >>
    /\ wpc' = [wpc EXCEPT ![i] = "sleep"]
    /\ UNCHANGED << qvars, lvars, svars, tvars, wtask, wvictim, evars >>

\* worker(core) finds nothing: the pop of its own queue and the steal
\* attempts of try_steal_work (random victims, which may all miss) fail
WFindNothing(i) ==
    /\ running /\ wpc[i] = "idle" /\ queues[i] = << >>
    /\ wpc' = [wpc EXCEPT ![i] = "nowork"]
    /\ UNCHANGED << qvars, lvars, svars, tvars, wtask, wvictim, evars >>

\* ... and then calls sleep_worker(core), whatever has been pushed, and
\* whatever wake_worker has done, since the pop
WPark(i) ==
    /\ wpc[i] = "nowork"
    /\ wpc' = [wpc EXCEPT ![i] = "sleep"]
    /\ UNCHANGED << qvars, lvars, svars, tvars, wtask, wvictim, evars >>

\* a sleep_worker whose wait has no time bound and whose notification came
\* before it slept: it returns only once running_ is false
park_without_bound(i) ==
    /\ wpc[i] = "sleep" /\ ~running
    /\ wpc' = [wpc EXCEPT ![i] = "idle"]
    /\ UNCHANGED << qvars, lvars, svars, tvars, wtask, wvictim, evars >>

\* a parked worker that leaves its wait only on a notification for new work
WWakeOnWork(i) ==
    /\ wpc[i] = "sleep" /\ queues[i] # << >>
    /\ wpc' = [wpc EXCEPT ![i] = "idle"]
    /\ UNCHANGED << qvars, lvars, svars, tvars, wtask, wvictim, evars >>

\* the wait_for of sleep_worker returns: notified by wake_worker, running_
\* found false, or the 10 ms have passed
WWake(i) ==
    /\ wpc[i] = "sleep"
    /\ wpc' = [wpc EXCEPT ![i] = "idle"]
    /\ UNCHANGED << qvars, lvars, svars, tvars, wtask, wvictim, evars >>

\* the periodic balance_load() of worker i, when it has something to move
WBalance(i) ==
    /\ running /\ wpc[i] = "idle"
    /\ balance_load(St) # St
    /\ Apply(balance_load(St))
    /\ wvictim' = [wvictim EXCEPT ![i] = MaxCore(core_loads)]
    /\ UNCHANGED << qvars, lvars, tvars, wpc, wtask, evars >>

\* -------------------------------------------------------------------- stop
\* stop() up to the joins: it returns at once on a scheduler that is not
\* running; otherwise running_ = false and every worker is woken
stop_entry(s) ==
    IF ~s.running THEN s
    ELSE [s EXCEPT !.running = FALSE, !.stop_pc = "joining"]

\* a stop() call; while another stop() is joining it waits on global_mutex_
StopBegin ==
    /\ stop_pc # "joining"
    /\ Apply(stop_entry(St))
    /\ UNCHANGED << qvars, lvars, tvars, wvars, evars >>

RECURSIVE Flatten(_, _)
Flatten(qs, S) == IF S = {} THEN << >>
                  ELSE LET i == CHOOSE j \in S : TRUE IN qs[i] \o Flatten(qs, S \ {i})

\* a stop() that joins the threads and leaves the registry and the queues as
\* they are
stop_without_cleanup(s, dn) ==
    [s EXCEPT !.vthread_contexts = EmptyMap,
              !.core_loads = [i \in Cores |-> 0],
              !.stop_pc = "done"]

\* stop() after the joins; dn[h] is the handle.done() read of the registry loop
stop(s, dn) ==
    LET s1 == DestroyAll(s, SeqOf({h \in DOMAIN s.io_operations : ~dn[h]}))
        s2 == DestroyAll(s1, Flatten(s.queues, Cores))     \* queues_.clear()
    IN [s2 EXCEPT !.io_operations = EmptyMap,
                  !.vthread_contexts = EmptyMap,
                  !.queues = [i \in Cores |-> << >>],
                  !.core_loads = [i \in Cores |-> 0],
                  !.poller = [fd \in Fds |-> << >>],
                  !.stop_pc = "done"]

StopFinish ==
    /\ stop_pc = "joining"
    /\ \A i \in Cores : wpc[i] = "idle"
    /\ \E dn \in [Handles -> BOOLEAN] :
         /\ \A h \in Handles : dn[h] \in DoneValues(h)
         /\ Apply(stop(St, dn))
    /\ wpc' = [i \in Cores |-> "none"]
    /\ UNCHANGED << qvars, lvars, tvars, wtask, wvictim, evars >>

\* ----------------------------------------------------------- specification
Next ==
    \/ Start
    \/ \E h \in Handles : Spawn(h)
    \/ \E h \in Handles, c \in 0 .. NCores : SpawnAffinity(h, c)
    \/ \E h \in Handles : ResumeFromIoCall(h)
    \/ \E h \in Handles, fd \in Fds, o \in {"ready", "error", "timeout", "invalid"} : BgFire(h, fd, o)
    \/ \E h \in Handles : CancelIo(h)
    \/ Elapse
    \/ Sweep
    \/ \E i \in Cores : WPopLocal(i)
    \/ \E i \in Cores, v \in Cores : WSteal(i, v)
    \/ \E i \in Cores : BodyComplete(i)
    \/ \E i \in Cores : BodySuspend(i)
    \/ \E i \in Cores : BodyYield(i)
    \/ \E i \in Cores, a \in IoAwaits : BodyAwaitIo(i, a[1], a[2])
    \/ \E i \in Cores : WFinish(i)
    \/ \E i \in Cores : WBalance(i)
    \/ \E i \in Cores : WSleep(i)
    \/ \E i \in Cores : WWake(i)
    \/ \E h \in Handles : ScheduleCount(h)
    \/ StopBegin
    \/ StopFinish

Spec == Init /\ [][Next]_vars

\* The I/O wait path alone: one scheduler that is never stopped, tasks that
\* await I/O and complete, the polling threads and the cancel call.
NextIo ==
    \/ Start
    \/ \E h \in Handles : Schedule(h)
    \/ \E i \in Cores : WPopLocal(i)
    \/ \E i \in Cores, a \in IoAwaits : BodyAwaitIo(i, a[1], a[2])
    \/ \E i \in Cores : BodyComplete(i)
    \/ \E i \in Cores : WFinish(i)
    \/ \E h \in Handles, fd \in Fds, o \in {"ready", "error", "timeout", "invalid"} : BgFire(h, fd, o)
    \/ \E h \in Handles : CancelIo(h)

SpecIo == Init /\ [][NextIo]_vars

\* The life cycle alone: start, tasks that are scheduled, await I/O and
\* complete, workers that run, steal and park, the polling threads, and stop.
NextLife ==
    \/ Start
    \/ \E h \in Handles : Schedule(h)
    \/ \E i \in Cores : WPopLocal(i)
    \/ \E i \in Cores, v \in Cores : WSteal(i, v)
    \/ \E i \in Cores : WSleep(i)
    \/ \E i \in Cores : WWake(i)
    \/ \E i \in Cores, a \in IoAwaits : BodyAwaitIo(i, a[1], a[2])
    \/ \E i \in Cores : BodyComplete(i)
    \/ \E i \in Cores : BodySuspend(i)
    \/ \E i \in Cores : WFinish(i)
    \/ \E h \in Handles, fd \in Fds, o \in {"ready", "error", "timeout", "invalid"} : BgFire(h, fd, o)
    \/ StopBegin
    \/ StopFinish

SpecLife == Init /\ [][NextLife]_vars

\* h.resume() returns: the body reaches co_return or a suspension point
BodyReturns(i) ==
    \/ BodyComplete(i)
    \/ BodySuspend(i)
    \/ \E a \in IoAwaits : BodyAwaitIo(i, a[1], a[2])

\* The life cycle with the progress the threads make on their own: a resume
\* returns, a worker goes on after it, a parked worker leaves wait_for (at
\* the latest when its 10 ms run out), and stop() goes on once its joins return.
FairLife ==
    /\ SpecLife
    /\ \A i \in Cores : WF_vars(BodyReturns(i))
    /\ \A i \in Cores : WF_vars(WFinish(i))
    /\ \A i \in Cores : WF_vars(WWake(i))
    /\ WF_vars(StopFinish)

\* Tasks that run to co_return on their first resume, on a scheduler that is
\* started and not stopped: the schedule calls and the workers, owner or thief.
NextOnce ==
    \/ Start
    \/ \E h \in Handles : Spawn(h)
    \/ \E h \in Handles, c \in 0 .. NCores : SpawnAffinity(h, c)
    \/ \E h \in Handles : ScheduleCount(h)
    \/ \E i \in Cores : WPopLocal(i)
    \/ \E i \in Cores, v \in Cores : WSteal(i, v)
    \/ \E i \in Cores : WSleep(i)
    \/ \E i \in Cores : WWake(i)
    \/ \E i \in Cores : BodyComplete(i)
    \/ \E i \in Cores : WFinish(i)

SpecOnce == Init /\ [][NextOnce]_vars

\* no thread of a process that std::terminate has ended takes a step
ProcessAlive == \A i \in Cores : wpc[i] # "terminated"

\* Tasks whose body completes or lets an exception escape, on a scheduler that
\* is started and not stopped.
NextThrow ==
    \/ ProcessAlive /\ Start
    \/ \E h \in Handles : ProcessAlive /\ Spawn(h)
    \/ \E h \in Handles : ProcessAlive /\ ScheduleCount(h)
    \/ \E i \in Cores : WPopLocal(i)
    \/ \E i \in Cores, v \in Cores : WSteal(i, v)
    \/ \E i \in Cores : WSleep(i)
    \/ \E i \in Cores : WWake(i)
    \/ \E i \in Cores : BodyComplete(i)
    \/ \E i \in Cores : BodyThrow(i)
    \/ \E i \in Cores : WFinish(i)

SpecThrow == Init /\ [][NextThrow]_vars

\* The switch on the suspend reason: tasks that suspend plainly, yield, await
\* I/O or complete, resumed from the worker's own queue or stolen, with a
\* stop() that may begin while a resume is under way.
NextSwitch ==
    \/ Start
    \/ \E h \in Handles : Schedule(h)
    \/ \E i \in Cores : WPopLocal(i)
    \/ \E i \in Cores, v \in Cores : WSteal(i, v)
    \/ \E i \in Cores : BodyComplete(i)
    \/ \E i \in Cores : BodySuspend(i)
    \/ \E i \in Cores : BodyYield(i)
    \/ \E i \in Cores, a \in IoAwaits : BodyAwaitIo(i, a[1], a[2])
    \/ \E i \in Cores : WFinish(i)
    \/ StopBegin
    \/ StopFinish

SpecSwitch == Init /\ [][NextSwitch]_vars

\* The I/O path with suspend_for_io taken statement by statement, so that
\* cancel_io_operation, the polling threads and the other worker interleave
\* with it.
NextSuspend ==
    \/ Start
    \/ \E h \in Handles : Schedule(h)
    \/ \E i \in Cores : WPopLocal(i)
    \/ \E i \in Cores, a \in IoAwaits : SuspendEnter(i, a[1], a[2])
    \/ \E i \in Cores : SuspendStep(i)
    \/ \E i \in Cores : BodyComplete(i)
    \/ \E i \in Cores : WFinish(i)
    \/ \E h \in Handles, fd \in Fds, o \in {"ready", "error", "timeout", "invalid"} : BgFire(h, fd, o)
    \/ \E h \in Handles : CancelIo(h)

SpecSuspend == Init /\ [][NextSuspend]_vars

\* Workers that may park after a push they have missed: the scheduler is
\* started and not stopped, tasks are scheduled and run to co_return.
NextPark ==
    \/ Start
    \/ \E h \in Handles : Schedule(h)
    \/ \E i \in Cores : WPopLocal(i)
    \/ \E i \in Cores, v \in Cores : WSteal(i, v)
    \/ \E i \in Cores : WFindNothing(i)
    \/ \E i \in Cores : WPark(i)
    \/ \E i \in Cores : WWake(i)
    \/ \E i \in Cores : BodyComplete(i)
    \/ \E i \in Cores : WFinish(i)

SpecPark == Init /\ [][NextPark]_vars

\* The same with the steps every thread takes on its own under a fair thread
\* scheduler: a worker that can pop its queue does, a worker that found
\* nothing parks, a parked worker leaves wait_for (at the latest after 10 ms),
\* a resume returns and the worker goes on after it.
FairPark ==
    /\ SpecPark
    /\ \A i \in Cores : WF_vars(WPopLocal(i))
    /\ \A i \in Cores : WF_vars(WPark(i))
    /\ \A i \in Cores : WF_vars(WWake(i))
    /\ \A i \in Cores : WF_vars(BodyComplete(i))
    /\ \A i \in Cores : WF_vars(WFinish(i))

\* ------------------------------------------------------ balance_load alone
\* A running scheduler caught at any moment between two balance_load calls:
\* the gauges hold any value from 2^32 - 1 (-1: a gauge that has wrapped) up
\* to MaxGauge, whatever the queues hold, since completions of tasks that the
\* model no longer follows have moved them, while every waiting task is still
\* counted in their sum; every task is unborn or waits in one run queue.
InitBalance ==
    /\ running = TRUE
    /\ stop_pc = "none"
    /\ frame \in [Handles -> {"unborn", "suspended"}]
    /\ \E place \in [Handles -> Cores] :
          queues = [i \in Cores |->
                      SeqOf({h \in Handles : frame[h] = "suspended" /\ place[h] = i})]
    /\ core_loads \in [Cores -> -1 .. MaxGauge]
    /\ SumOver(core_loads, Cores) >= Cardinality({h \in Handles : frame[h] = "suspended"})
    /\ io_operations = EmptyMap
    /\ vthread_contexts = EmptyMap
    /\ poller = [fd \in Fds |-> << >>]
    /\ stats = [total_scheduled |-> 0, total_io_suspended |-> 0, total_resumed |-> 0,
                work_stolen |-> 0, context_switches |-> 0,
                per_core_executed |-> [i \in Cores |-> 0]]
    /\ destroys = [h \in Handles |-> 0]
    /\ resumes = [h \in Handles |-> 0]
    /\ notified = [h \in Handles |-> 0]
    /\ wpc = [i \in Cores |-> "idle"]
    /\ wtask = [i \in Cores |-> NoHandle]
    /\ wvictim = [i \in Cores |-> i]
    /\ bg = [h \in Handles |-> [fd \in Fds |-> 0]]
    /\ result = 0
    /\ env = 0
    /\ scheduling = {}
    /\ io_call = [i \in Cores |-> << >>]
    /\ q_head = 1 /\ q_tail = 1
    /\ q_next = [n \in Nodes |-> NoNode]
    /\ q_value = [n \in Nodes |-> NoHandle]
    /\ q_deleted = [n \in Nodes |-> 0]
    /\ q_taken = [h \in QTasks |-> 0]
    /\ push_pc = "idle" /\ push_prev = NoNode
    /\ pop_pc = [p \in Poppers |-> "idle"]
    /\ pop_next = [p \in Poppers |-> NoNode]
    /\ pop_out = [p \in Poppers |-> NoHandle]
    /\ prod_pc = [p \in Producers |-> "idle"] /\ prod_prev = [p \in Producers |-> NoNode]
    /\ prod_node = [p \in Producers |-> NoNode]
    /\ pushed = {} /\ q_order = << >>
    /\ lk_op = [t \in Threads |-> << >>]
    /\ lk_idx = [t \in Threads |-> 0]

NextBalance ==
    \/ \E i \in Cores : WBalance(i)
    \/ \E h \in Handles : Schedule(h)

SpecBalance == InitBalance /\ [][NextBalance]_vars

\* ------------------------------------------------- the scheduler's mutexes
\* global_mutex_ "G", io_operations_mutex_ "R", contexts_mutex_ "V",
\* stats_mutex_ "S" and *worker_mutexes_[c] "W0", "W1".  A call is the sequence
\* of its lock events: << "acq", m >>, << "rel", m >>, << "poller" >> (a call
\* of event_loop_->add or del) and << "join" >> (stop() joining the workers
\* and the cleanup thread).
WorkerMutex(c) == IF c = 0 THEN "W0" ELSE "W1"

wake_worker_locks(c) == << << "acq", WorkerMutex(c) >>, << "rel", WorkerMutex(c) >> >>
\* wait_for releases the mutex while it waits and takes it again
sleep_worker_locks(c) ==
    << << "acq", WorkerMutex(c) >>, << "rel", WorkerMutex(c) >>,
       << "acq", WorkerMutex(c) >>, << "rel", WorkerMutex(c) >> >>
stats_locks == << << "acq", "S" >>, << "rel", "S" >> >>
context_locks == << << "acq", "V" >>, << "rel", "V" >> >>
schedule_locks(c) == wake_worker_locks(c) \o stats_locks
suspend_for_io_locks ==
    << << "acq", "R" >>, << "rel", "R" >> >> \o context_locks \o << << "poller" >> >> \o stats_locks
take_io_locks == << << "acq", "R" >>, << "poller" >>, << "rel", "R" >> >>
resume_from_io_locks(c) == take_io_locks \o context_locks \o schedule_locks(c) \o stats_locks
cleanup_locks == << << "acq", "R" >>, << "rel", "R" >> >>
\* worker(): mount_vthread and the two lookups of execute_vthread
dispatch_locks == context_locks \o context_locks \o context_locks
stop_locks ==
    << << "acq", "G" >> >> \o wake_worker_locks(0) \o wake_worker_locks(1)
       \o << << "join" >> >> \o cleanup_locks \o context_locks \o << << "rel", "G" >> >>

\* a resume_from_io that looks the context up while it still holds the
\* registry, and a suspend_for_io that marks the context first and inserts
\* into the registry before it lets go of the context
nested_locks(op) ==
    CASE op[1] = "resume_from_io" ->
            << << "acq", "R" >>, << "poller" >>, << "acq", "V" >>, << "rel", "V" >>, << "rel", "R" >> >>
      [] op[1] = "suspend_for_io" ->
            << << "acq", "V" >>, << "acq", "R" >>, << "rel", "R" >>, << "rel", "V" >> >>
      [] OTHER -> context_locks

\* the lock events of call op = << name, core >>
LockScript(op) ==
    CASE op[1] = "schedule"            -> schedule_locks(op[2])
      [] op[1] = "suspend_for_io"      -> suspend_for_io_locks
      [] op[1] = "resume_from_io"      -> resume_from_io_locks(op[2])
      [] op[1] = "cancel_io_operation" -> take_io_locks
      [] op[1] = "notify_completion"   -> context_locks
      [] op[1] = "cleanup"             -> cleanup_locks
      [] op[1] = "dispatch"            -> dispatch_locks
      [] op[1] = "sleep_worker"        -> sleep_worker_locks(op[2])
      [] op[1] = "stop"                -> stop_locks

\* the calls each thread makes: a worker in its loop (a dispatch, a
\* schedule of a task that yielded, a park) and inside the body of the task
\* it resumes, a polling thread of io_awaitable, a foreign thread, and the
\* cleanup thread
WorkerOps(c) ==
    {<< "dispatch", c >>, << "sleep_worker", c >>, << "schedule", 1 - c >>,
     << "suspend_for_io", c >>, << "notify_completion", c >>}
OpsOf(t) ==
    CASE t = "w0"      -> WorkerOps(0)
      [] t = "w1"      -> WorkerOps(1)
      [] t = "bg"      -> {<< "resume_from_io", 0 >>}
      [] t = "api"     -> {<< "schedule", 1 >>, << "cancel_io_operation", 0 >>, << "stop", 0 >>}
      [] t = "sweeper" -> {<< "cleanup", 0 >>}

\* the mutexes held after the first k events of a script
RECURSIVE HeldAfter(_, _)
HeldAfter(script, k) ==
    IF k = 0 THEN {}
    ELSE LET e == script[k]
             H == HeldAfter(script, k - 1)
         IN IF e[1] = "acq" THEN H \cup {e[2]}
            ELSE IF e[1] = "rel" THEN H \ {e[2]}
            ELSE H

Held(t) == IF lk_op[t] = << >> THEN {} ELSE HeldAfter(LockScript(lk_op[t]), lk_idx[t])
InCall(t) == lk_op[t] # << >>
NextEvent(t) == LockScript(lk_op[t])[lk_idx[t] + 1]

\* whether the next lock event of t can happen now
CanStep(t) ==
    /\ InCall(t)
    /\ LET e == NextEvent(t) IN
       CASE e[1] = "acq"  -> \A u \in Threads : e[2] \notin Held(u)
         [] e[1] = "join" -> \A u \in {"w0", "w1", "sweeper"} : ~InCall(u)
         [] OTHER         -> TRUE

LockBegin(t, op) ==
    /\ ~InCall(t) /\ op \in OpsOf(t)
    /\ lk_op' = [lk_op EXCEPT ![t] = op]
    /\ lk_idx' = [lk_idx EXCEPT ![t] = 0]
    /\ UNCHANGED << qvars, svars, tvars, wvars, evars >>

LockStep(t) ==
    /\ CanStep(t)
    /\ IF lk_idx[t] + 1 = Len(LockScript(lk_op[t]))
       THEN /\ lk_op' = [lk_op EXCEPT ![t] = << >>]
            /\ lk_idx' = [lk_idx EXCEPT ![t] = 0]
       ELSE /\ lk_idx' = [lk_idx EXCEPT ![t] = @ + 1]
            /\ UNCHANGED lk_op
    /\ UNCHANGED << qvars, svars, tvars, wvars, evars >>

NextLocks ==
    \/ \E t \in Threads, op \in UNION {OpsOf(u) : u \in Threads} : LockBegin(t, op)
    \/ \E t \in Threads : LockStep(t)

SpecLocks == Init /\ [][NextLocks]_vars

\* ------------------------------------------------- event_loop, on its own
\* bit b (a power of two) of mask m
HasBit(m, b) == (m \div b) % 2 = 1

\* to_poll_events(mask): READABLE -> POLLIN, WRITABLE -> POLLOUT
to_poll_events(mask) ==
    (IF HasBit(mask, READABLE) THEN POLLIN ELSE 0)
      + (IF HasBit(mask, WRITABLE) THEN POLLOUT ELSE 0)

\* cqe->res of a poll request for `mask` on a descriptor whose readiness is
\* `ready` (POLLIN, POLLOUT bits); 0: the request has not completed
poll_res(mask, ready) ==
    (IF HasBit(to_poll_events(mask), POLLIN) /\ HasBit(ready, POLLIN) THEN POLLIN ELSE 0)
      + (IF HasBit(to_poll_events(mask), POLLOUT) /\ HasBit(ready, POLLOUT) THEN POLLOUT ELSE 0)

\* the mask event_loop::wait() builds from cqe->res
event_mask_of(res) ==
    (IF HasBit(res, POLLIN) THEN READABLE ELSE 0)
      + (IF HasBit(res, POLLOUT) THEN WRITABLE ELSE 0)

\* event_loop::wait(): the masks of the events reported for the requests
\* `reqs` of one descriptor, in order of submission
RECURSIVE wait(_, _)
wait(reqs, ready) ==
    IF reqs = << >> THEN << >>
    ELSE (IF poll_res(Head(reqs), ready) # 0
          THEN << event_mask_of(poll_res(Head(reqs), ready)) >> ELSE << >>)
         \o wait(Tail(reqs), ready)

\* the requests still pending after that wait: a poll request is one-shot
RECURSIVE pending(_, _)
pending(reqs, ready) ==
    IF reqs = << >> THEN << >>
    ELSE (IF poll_res(Head(reqs), ready) # 0 THEN << >> ELSE << Head(reqs) >>)
         \o pending(Tail(reqs), ready)

EventMasks == {READABLE, WRITABLE, READABLE + WRITABLE}
Readiness  == {0, POLLIN, POLLOUT, POLLIN + POLLOUT}

PollAdd(fd, mask) ==
    /\ Len(poller[fd]) < MaxPoll
    /\ poller' = PollerAdd(poller, fd, mask)
    /\ UNCHANGED << qvars, lvars, running, stop_pc, queues, core_loads, io_operations,
                    vthread_contexts, stats, destroys, tvars, wvars, evars >>

PollDel(fd) ==
    /\ poller' = PollerDel(poller, fd)
    /\ UNCHANGED << qvars, lvars, running, stop_pc, queues, core_loads, io_operations,
                    vthread_contexts, stats, destroys, tvars, wvars, evars >>

PollWait(fd, ready) ==
    /\ wait(poller[fd], ready) # << >>
    /\ poller' = [poller EXCEPT ![fd] = pending(@, ready)]
    /\ UNCHANGED << qvars, lvars, running, stop_pc, queues, core_loads, io_operations,
                    vthread_contexts, stats, destroys, tvars, wvars, evars >>

\* The poller alone, driven through add, del and wait.
NextPoller ==
    \/ \E fd \in Fds, mask \in EventMasks : PollAdd(fd, mask)
    \/ \E fd \in Fds : PollDel(fd)
    \/ \E fd \in Fds, ready \in Readiness : PollWait(fd, ready)

SpecPoller == Init /\ [][NextPoller]_vars

\* ---------------------------------------------- mpsc_queue<vthread>, by node
\* push(v) and pop(out) taken statement by statement on one queue, with one
\* producer and the two threads that pop it: its owner in worker() and
\* another worker in try_steal_work() or balance_load().  Neither pop holds a
\* lock, head_ is a plain pointer and vthread's move assignment is a plain
\* read of coro_ followed by a plain write.
\* push: new node(v), tail_.exchange(n)
QPushSwap(h) ==
    LET n == h + 1 IN
    /\ push_pc = "idle"
    /\ q_tail = h          \* the nodes are made in order: this is the h-th push
    /\ q_value' = [q_value EXCEPT ![n] = h]
    /\ push_prev' = q_tail
    /\ q_tail' = n
    /\ push_pc' = "link"
    /\ UNCHANGED << mvars, q_head, q_next, q_deleted, q_taken, pop_pc, pop_next, pop_out, pvars, q_order >>

\* push: prev->next.store(n)
QPushLink ==
    /\ push_pc = "link"
    /\ q_next' = [q_next EXCEPT ![push_prev] = q_tail]
    /\ push_pc' = "idle"
    /\ push_prev' = NoNode
    /\ UNCHANGED << mvars, q_head, q_tail, q_value, q_deleted, q_taken, pop_pc, pop_next, pop_out, pvars, q_order >>

\* what a read of a field of node n can yield: the field, or anything at all
\* once the node has been deleted
NodeRead(n, field, any) == IF q_deleted[n] > 0 THEN any ELSE {field[n]}

\* pop() calls that found a node: each one deletes once when it returns
PopsStarted == SumOver(q_deleted, Nodes) + Cardinality({p \in Poppers : pop_pc[p] # "idle"})

\* pop: next = head_->next.load(); a null next returns false
QPopRead(p) ==
    /\ pop_pc[p] = "idle"
    /\ PopsStarted < MaxPops
    /\ \E next \in NodeRead(q_head, q_next, Nodes \cup {NoNode}) :
          /\ next # NoNode
          /\ pop_next' = [pop_next EXCEPT ![p] = next]
    /\ pop_out' = [pop_out EXCEPT ![p] = NoHandle]
    /\ pop_pc' = [pop_pc EXCEPT ![p] = "load"]
    /\ UNCHANGED << mvars, q_head, q_tail, q_next, q_value, q_deleted, q_taken, push_pc, push_prev, pvars, q_order >>

\* pop: out = std::move(next->value.value()), the read of o.coro_
QPopLoad(p) ==
    /\ pop_pc[p] = "load"
    /\ \E v \in NodeRead(pop_next[p], q_value, QTasks \cup {NoHandle}) :
          pop_out' = [pop_out EXCEPT ![p] = v]
    /\ pop_pc' = [pop_pc EXCEPT ![p] = "clear"]
    /\ UNCHANGED << mvars, q_head, q_tail, q_next, q_value, q_deleted, q_taken, push_pc, push_prev,
                    pop_next, pvars, q_order >>

\* pop: the o.coro_ = {} of the move assignment
QPopClear(p) ==
    /\ pop_pc[p] = "clear"
    /\ q_value' = [q_value EXCEPT ![pop_next[p]] = NoHandle]
    /\ pop_pc' = [pop_pc EXCEPT ![p] = "unlink"]
    /\ UNCHANGED << mvars, q_head, q_tail, q_next, q_deleted, q_taken, push_pc, push_prev,
                    pop_next, pop_out, pvars, q_order >>

\* a pop that returns its element and leaves head_ where it was
QPopKeepHead(p) ==
    /\ pop_pc[p] = "unlink"
    /\ q_value' = [q_value EXCEPT ![pop_next[p]] = pop_out[p]]
    /\ q_taken' = IF pop_out[p] = NoHandle THEN q_taken
                  ELSE [q_taken EXCEPT ![pop_out[p]] = @ + 1]
    /\ q_deleted' = [q_deleted EXCEPT ![q_head] = @ + 1]
    /\ pop_pc' = [pop_pc EXCEPT ![p] = "idle"]
    /\ pop_next' = [pop_next EXCEPT ![p] = NoNode]
    /\ q_order' = IF pop_out[p] = NoHandle THEN q_order ELSE Append(q_order, pop_out[p])
    /\ UNCHANGED << mvars, q_head, q_tail, q_next, push_pc, push_prev, pop_out, pvars >>

\* pop: delete head_; head_ = next; return true
QPopUnlink(p) ==
    /\ pop_pc[p] = "unlink"
    /\ q_deleted' = [q_deleted EXCEPT ![q_head] = @ + 1]
    /\ q_head' = pop_next[p]
    /\ q_taken' = IF pop_out[p] = NoHandle THEN q_taken
                  ELSE [q_taken EXCEPT ![pop_out[p]] = @ + 1]
    /\ pop_pc' = [pop_pc EXCEPT ![p] = "idle"]
    /\ pop_next' = [pop_next EXCEPT ![p] = NoNode]
    /\ q_order' = IF pop_out[p] = NoHandle THEN q_order ELSE Append(q_order, pop_out[p])
    /\ UNCHANGED << mvars, q_tail, q_next, q_value, push_pc, push_prev, pop_out, pvars >>

\* Several producers.  Producer p pushes its own tasks in increasing order;
\* push: new node(v), tail_.exchange(n)
MPushSwap(p, h) ==
    LET n == h + 1 IN
    /\ prod_pc[p] = "idle"
    /\ ProducerOf(h) = p /\ h \notin pushed
    /\ \A g \in QTasks : (ProducerOf(g) = p /\ g < h) => g \in pushed
    /\ pushed' = pushed \cup {h}
    /\ q_value' = [q_value EXCEPT ![n] = h]
    /\ prod_prev' = [prod_prev EXCEPT ![p] = q_tail]
    /\ prod_node' = [prod_node EXCEPT ![p] = n]
    /\ q_tail' = n
    /\ prod_pc' = [prod_pc EXCEPT ![p] = "link"]
    /\ UNCHANGED << mvars, q_head, q_next, q_deleted, q_taken, push_pc, push_prev,
                    pop_pc, pop_next, pop_out, q_order >>

\* a push that puts its node right behind the head instead of behind the
\* previous tail
MPushLinkFront(p) ==
    /\ prod_pc[p] = "link"
    /\ pop_pc["owner"] = "idle"
    /\ q_next' = [q_next EXCEPT ![prod_node[p]] = q_next[q_head], ![q_head] = prod_node[p]]
    /\ prod_pc' = [prod_pc EXCEPT ![p] = "idle"]
    /\ prod_prev' = [prod_prev EXCEPT ![p] = NoNode]
    /\ prod_node' = [prod_node EXCEPT ![p] = NoNode]
    /\ UNCHANGED << mvars, q_head, q_tail, q_value, q_deleted, q_taken, push_pc, push_prev,
                    pop_pc, pop_next, pop_out, pushed, q_order >>

\* push: prev->next.store(n)
MPushLink(p) ==
    /\ prod_pc[p] = "link"
    /\ q_next' = [q_next EXCEPT ![prod_prev[p]] = prod_node[p]]
    /\ prod_pc' = [prod_pc EXCEPT ![p] = "idle"]
    /\ prod_prev' = [prod_prev EXCEPT ![p] = NoNode]
    /\ prod_node' = [prod_node EXCEPT ![p] = NoNode]
    /\ UNCHANGED << mvars, q_head, q_tail, q_value, q_deleted, q_taken, push_pc, push_prev,
                    pop_pc, pop_next, pop_out, pushed, q_order >>

NextPop ==
    \/ \E h \in QTasks : QPushSwap(h)
    \/ QPushLink
    \/ \E p \in Poppers : QPopRead(p)
    \/ \E p \in Poppers : QPopLoad(p)
    \/ \E p \in Poppers : QPopClear(p)
    \/ \E p \in Poppers : QPopUnlink(p)

SpecPop == Init /\ [][NextPop]_vars

\* The queue as it is meant to be used: producers that push concurrently and
\* the one consumer.
NextMpsc ==
    \/ \E p \in Producers, h \in QTasks : MPushSwap(p, h)
    \/ \E p \in Producers : MPushLink(p)
    \/ QPopRead("owner")
    \/ QPopLoad("owner")
    \/ QPopClear("owner")
    \/ QPopUnlink("owner")

SpecMpsc == Init /\ [][NextMpsc]_vars

\* ------------------------------------------------------------- properties
\* the workers that hold h between their h.resume() and the end of its handling
Executing(h) == {i \in Cores : wpc[i] \in {"run", "ret"} /\ wtask[i] = h}

Registered(h) == h \in DOMAIN io_operations

\* C1: a task handle is never twice in the run queues, never in a run queue
\* while it is registered in the I/O wait registry, and never in a run queue
\* while a worker is executing it.
C1_SingleHolder ==
    \A h \in Handles :
        /\ QueuedCount(h) <= 1
        /\ ~(QueuedCount(h) > 0 /\ Registered(h))
        /\ ~(QueuedCount(h) > 0 /\ Executing(h) # {})

\* C2: no worker starts a resume of a task while another worker's resume of
\* the same task has not yet returned and been handled.
C2_OneResumer == \A h \in Handles : Cardinality(Executing(h)) <= 1

\* C3: while the registry holds an entry for a task, the task has not been
\* destroyed and is in no run queue.
C3_RegisteredIsAlive ==
    \A h \in Handles : Registered(h) => destroys[h] = 0 /\ QueuedCount(h) = 0

\* C4: no coroutine frame is destroyed more than once.
C4_DestroyedOnce == \A h \in Handles : destroys[h] <= 1

\* C5: no task is returned by more than one pop() call, whichever threads
\* make the calls.
C5_TakenOnce == \A h \in QTasks : q_taken[h] <= 1

\* C6: every pop a worker has made was a pop of its own run queue.
C6_OwnerPopsOnly == \A i \in Cores : wvictim[i] = i

\* C7: whenever a registered task leaves the registry and enters a run queue,
\* the resume_from_io call that did it reported readiness (result 1), not a
\* poll timeout (-2), a poll error or an invalid descriptor (-1).
C7_WakeOnlyOnReadiness ==
    [][\A h \in Handles :
          (Registered(h) /\ ~Registered(h)' /\ QueuedCount(h)' > QueuedCount(h))
              => result' = 1]_vars

\* a step that is a resume_from_io(h, ...) call
ResumeFromIoStep(h) ==
    \/ ResumeFromIoCall(h)
    \/ \E fd \in Fds : \E o \in PollOutcomes(fd) : BgFire(h, fd, o)

\* C8: a resume_from_io call for a live task that has no registry entry
\* changes nothing in the scheduler: no queue, gauge, context or counter.
C8_TakeMissDiscarded ==
    [][\A h \in Handles :
          (~Registered(h) /\ destroys[h] = 0 /\ ResumeFromIoStep(h))
              => UNCHANGED svars]_vars

\* C10: total_resumed never exceeds total_io_suspended.
C10_ResumedAtMostSuspended == stats.total_resumed <= stats.total_io_suspended

\* C9: cancel_io_operation(h) on a registered h removes exactly the registry
\* entry of h and cancels one poll request of its descriptor; run queues, load
\* gauges, contexts, statistics and frames are left as they were.  On an
\* unregistered h it leaves the whole scheduler state as it was.
C9_CancelFrame ==
    \A h \in Handles :
        LET r == cancel_io_operation(St, h) IN
        IF Registered(h)
        THEN /\ r.io_operations = MapDel(io_operations, h)
             /\ r.poller = PollerDel(poller, io_operations[h].fd)
             /\ r.queues = queues
             /\ r.core_loads = core_loads
             /\ r.vthread_contexts = vthread_contexts
             /\ r.stats = stats
             /\ r.destroys = destroys
             /\ r.running = running
        ELSE r = St

\* a cancel has acted on a registered task: its entry is gone and the poll
\* request was removed although its polling thread still runs, nothing was
\* resumed and the task is in no run queue
C9_Cancelled ==
    \E h \in Handles :
        /\ running /\ env > 0
        /\ stats.total_io_suspended = 1 /\ stats.total_resumed = 0
        /\ ~Registered(h)
        /\ bg[h][3] = 1 /\ poller[3] = << >>
        /\ QueuedCount(h) = 0

\* C11: once every schedule call has returned, no worker's executed count
\* exceeds total_scheduled plus the number of stolen tasks.
C11_ExecutedBounded ==
    scheduling = {} =>
        \A i \in Cores :
            stats.per_core_executed[i] <= stats.total_scheduled + stats.work_stolen

\* C12: after stop() has returned every run queue is empty and the I/O wait
\* registry is empty.
C12_StopLeavesNothing ==
    stop_pc = "done" =>
        /\ \A i \in Cores : queues[i] = << >>
        /\ io_operations = EmptyMap

\* stop() has returned after destroying a task that was suspended on a
\* descriptor and never resumed from it
C12_StoppedWhileSuspended ==
    /\ stop_pc = "done"
    /\ stats.total_io_suspended > 0
    /\ stats.total_resumed = 0
    /\ \E h \in Handles : destroys[h] > 0 /\ notified[h] = 0

\* C13: a stop() call made on a running scheduler eventually returns, and when
\* it has returned the scheduler is not running and every worker thread has
\* exited, the parked ones included.
C13_StopReturns ==
    (stop_pc = "joining") ~>
        (stop_pc = "done" /\ ~running /\ \A i \in Cores : wpc[i] = "none")

\* stop() is joining while one worker is parked and another is inside a resume
C13_JoiningParked ==
    /\ stop_pc = "joining"
    /\ \E i \in Cores : wpc[i] = "sleep"
    /\ \E j \in Cores : wpc[j] = "run"

\* C14: start and stop are idempotent.  start() on a running scheduler and
\* stop() on a scheduler that is not running change nothing, start;start
\* leaves the state of one start, and a second stop() after a stop() that has
\* returned leaves the state of the first.
C14_StartStopIdempotent ==
    /\ running => start(St) = St
    /\ start(start(St)) = start(St)
    /\ ~running => stop_entry(St) = St
    /\ \A dn \in [Handles -> BOOLEAN] :
         LET once == stop(stop_entry(St), dn)
         IN stop_entry(once) = once

\* a running scheduler with a task on a run queue, a load gauge above zero and
\* a schedule call counted
C14_RunningWithWork ==
    /\ running
    /\ stats.total_scheduled > 0
    /\ \E i \in Cores : core_loads[i] # 0 /\ queues[i] # << >>

\* C15: notify_completion(H) is called at most once for a handle H, and once it
\* has been called H is not resumed, not pushed on a run queue and not
\* inserted in the I/O wait registry any more.
C15_NothingAfterCompletion ==
    [][\A h \in Handles :
          notified[h] > 0 =>
              /\ notified'[h] = notified[h]
              /\ resumes'[h] = resumes[h]
              /\ QueuedCount(h)' <= QueuedCount(h)
              /\ (Registered(h)' => Registered(h))]_vars

\* C16: a task scheduled on a running scheduler that completes on its first
\* resume has been notified as completed exactly once and resumed exactly once,
\* and total_scheduled holds one increment for each schedule call that put a
\* task on a run queue and has returned, whichever worker ran the task.
C16_OneScheduleOneCompletion ==
    \A h \in Handles :
        (frame[h] = "final" /\ h \notin scheduling) =>
            /\ notified[h] = 1
            /\ resumes[h] = 1
            /\ stats.total_scheduled =
                 Cardinality({g \in Handles \ scheduling :
                                  resumes[g] > 0 \/ QueuedCount(g) > 0})

\* a task has completed in the hands of a thief and its schedule call has
\* returned
C16_CompletedByThief ==
    \E h \in Handles :
        /\ frame[h] = "final" /\ h \notin scheduling
        /\ stats.work_stolen > 0

\* C17: a resume_from_io call for a handle whose task has already completed
\* changes no run queue, registry entry, context, load gauge or statistics
\* counter.
C17_ResumeOfCompletedIgnored ==
    [][\A h \in Handles :
          (notified[h] > 0 /\ ResumeFromIoStep(h))
              => UNCHANGED << queues, io_operations, vthread_contexts,
                              core_loads, stats >>]_vars

C19_CountedBeforeRun ==
    \A h \in scheduling :
        /\ resumes[h] = 0
        /\ SumOver(stats.per_core_executed, Cores) <= stats.total_scheduled

\* C20: on a running scheduler schedule(H) pushes H at the back of the run
\* queue of the core whose load is the minimum, the lowest index among equal
\* loads, and adds 1 to the load of that core; no other run queue and no
\* other load changes.
C20_ScheduleOnLeastLoaded ==
    running =>
        \A h \in Handles :
            LET r == schedule(St, h) IN
            \E c \in Cores :
                /\ \A d \in Cores : ~ULess(core_loads[d], core_loads[c])
                /\ \A d \in Cores : core_loads[d] = core_loads[c] => c <= d
                /\ r.queues = [queues EXCEPT ![c] = Append(@, h)]
                /\ r.core_loads = [core_loads EXCEPT ![c] = @ + 1]

\* a second schedule call found core 0 loaded and put the task on core 1
C20_PlacedOnIdleCore ==
    \E h \in Handles :
        /\ running
        /\ stats.total_scheduled = 2
        /\ queues[1] = << h >>
        /\ core_loads[0] = 1 /\ core_loads[1] = 1

\* C21: completion handling takes the registry entry of a task that completes
\* while it is registered and removes its descriptor from the poller: after
\* notify_completion(h) the registry holds no entry for h.
C21_CompletionTakesEntry ==
    \A h \in Handles :
        /\ notified[h] > 0 => ~Registered(h)
        /\ Registered(h) =>
              LET r == notify_completion(St, h) IN
              /\ h \notin DOMAIN r.io_operations
              /\ r.poller = PollerDel(poller, io_operations[h].fd)

\* C22: an exception that escapes a task body does not end the process: the
\* worker that was resuming the task goes on with its loop.
C22_ExceptionContained == \A i \in Cores : wpc[i] # "terminated"

\* C23: an expiry sweep removes the registry entry of every expired wait and
\* destroys its handle, and a resume_from_io that arrives for that handle after
\* the sweep does not put the task on a run queue.
C23_ExpiredNeverResumed ==
    \A h \in Handles :
        (Registered(h) /\ io_operations[h].expired) =>
            \A dn \in [Handles -> BOOLEAN] :
                (\A g \in Handles : dn[g] \in DoneValues(g)) =>
                    LET swept == cleanup_expired_io_operations(St, dn)
                        late  == IF swept.destroys[h] > 0 THEN BOOLEAN
                                 ELSE {frame[h] = "final"}
                    IN /\ h \notin DOMAIN swept.io_operations
                       /\ swept.destroys[h] > 0
                       /\ \A d1 \in late, d2 \in late :
                              resume_from_io(swept, h, d1, d2).queues = queues

\* C24: a task resumed after a failed I/O wait obtains from its await the
\* failure code that was passed to resume_from_io.
C24_AwaitObservesFailure ==
    \A h \in Handles :
        (result < 0 /\ stats.total_resumed > 0 /\ resumes[h] > 1)
            => await_resume(res_) = result

\* the readiness bits a sequence of reported event masks carries
RECURSIVE ReportedBits(_)
ReportedBits(evs) ==
    IF evs = << >> THEN {}
    ELSE {b \in {READABLE, WRITABLE} : HasBit(Head(evs), b)} \cup ReportedBits(Tail(evs))

\* C25: on a descriptor without interest, add(fd, READABLE) then
\* add(fd, WRITABLE) reports the same readiness from wait as one
\* add(fd, READABLE|WRITABLE), and a del(fd) after either leaves no interest
\* on fd.
C25_AddSplitsAndDelClears ==
    \A fd \in Fds :
        poller[fd] = << >> =>
            LET two == PollerAdd(PollerAdd(poller, fd, READABLE), fd, WRITABLE)
                one == PollerAdd(poller, fd, READABLE + WRITABLE)
            IN /\ \A ready \in Readiness :
                     ReportedBits(wait(two[fd], ready)) = ReportedBits(wait(one[fd], ready))
               /\ PollerDel(one, fd)[fd] = << >>
               /\ PollerDel(two, fd)[fd] = << >>

\* C26 as stated: after a resume has returned, the worker enqueues the task
\* when the observed reason is NONE with the task not done or PREEMPTED (its
\* own queue) or YIELD (some queue), leaves the queues alone on IO_WAIT and
\* COMPLETED, and on COMPLETED takes 1 from its own gauge.
C26_YieldAlwaysEnqueues ==
    \A i \in Cores :
        wpc[i] = "ret" =>
            LET h == wtask[i] IN
            \A d \in DoneValues(h), d3 \in DoneValues(h) :
                LET reason == ObservedReason(St, h, d)
                    r      == AfterResume(St, i, h, wvictim[i] # i, d, d3)
                IN /\ ((reason = "NONE" /\ ~d3) \/ reason = "PREEMPTED")
                         => r.queues = push(queues, i, h)
                   /\ reason = "YIELD" => \E c \in Cores : r.queues = push(queues, c, h)
                   /\ (reason \in {"IO_WAIT", "COMPLETED"} \/ (reason = "NONE" /\ d3))
                         => r.queues = queues
                   /\ reason = "COMPLETED" => r.core_loads = LoadDec(core_loads, i)

\* C26: the same, except that on YIELD the task is enqueued, on the core
\* schedule selects, only while the scheduler is running; once stop() has
\* cleared running_ the queues stay as they are and the task is destroyed.
C26_SwitchOnReason ==
    \A i \in Cores :
        wpc[i] = "ret" =>
            LET h == wtask[i] IN
            \A d \in DoneValues(h), d3 \in DoneValues(h) :
                LET reason == ObservedReason(St, h, d)
                    r      == AfterResume(St, i, h, wvictim[i] # i, d, d3)
                IN /\ ((reason = "NONE" /\ ~d3) \/ reason = "PREEMPTED")
                         => r.queues = push(queues, i, h)
                   /\ (reason = "YIELD" /\ running)
                         => r.queues = push(queues, select_best_core(core_loads), h)
                   /\ (reason = "YIELD" /\ ~running)
                         => r.queues = queues /\ r.destroys[h] = destroys[h] + 1
                   /\ (reason \in {"IO_WAIT", "COMPLETED"} \/ (reason = "NONE" /\ d3))
                         => r.queues = queues
                   /\ reason = "COMPLETED" => r.core_loads = LoadDec(core_loads, i)

\* a stolen task whose resume returned after a yield_current, the scheduler
\* still running
C26_StolenYielded ==
    \E i \in Cores :
        /\ wpc[i] = "ret" /\ wvictim[i] # i /\ running
        /\ destroys[wtask[i]] = 0
        /\ ObservedReason(St, wtask[i], FALSE) = "YIELD"

\* the statement of its suspend_for_io call that worker i executes in this step
\* (0: none)
SuspendStatement(i) ==
    IF wpc[i] = "run" /\ wpc'[i] = "io1" THEN 1
    ELSE IF wpc[i] = "io1" /\ wpc'[i] = "io2" THEN 2
    ELSE IF wpc[i] = "io2" /\ wpc'[i] = "io3" THEN 3
    ELSE IF wpc[i] = "io3" /\ wpc'[i] = "ret" THEN 4
    ELSE 0

\* C27: the first statement of suspend_for_io(H, fd, events) on a live handle
\* inserts the registry entry of H (and keeps the one entry H already has),
\* the second sets H's suspend reason to IO_WAIT, the third adds (fd, events)
\* to the Poller, the fourth adds 1 to total_io_suspended; no statement does
\* anything else.
C27_SuspendStepsInOrder ==
    [][\A i \in Cores :
          LET h == wtask[i]
              k == SuspendStatement(i)
          IN k # 0 =>
               /\ IF k = 1
                  THEN /\ DOMAIN io_operations' = DOMAIN io_operations \cup {h}
                       /\ \A g \in DOMAIN io_operations : io_operations'[g] = io_operations[g]
                       /\ h \notin DOMAIN io_operations =>
                             /\ io_operations'[h].fd = io_call'[i][1]
                             /\ io_operations'[h].events = io_call'[i][2]
                  ELSE io_operations' = io_operations
               /\ IF k = 2
                  THEN vthread_contexts' = SetReason(St, h, "IO_WAIT").vthread_contexts
                  ELSE vthread_contexts' = vthread_contexts
               /\ IF k = 3 /\ has_event_loop(St)
                  THEN poller' = PollerAdd(poller, io_call[i][1], io_call[i][2])
                  ELSE poller' = poller
               /\ IF k = 4
                  THEN stats' = [stats EXCEPT !.total_io_suspended = @ + 1]
                  ELSE stats' = stats
      ]_vars

\* a call that has inserted, marked and added, and has not counted yet, while
\* the entry is still in the registry and the context says IO_WAIT
C27_BeforeCount ==
    \E i \in Cores :
        /\ wpc[i] = "io3"
        /\ Registered(wtask[i])
        /\ io_operations[wtask[i]].fd = io_call[i][1]
        /\ wtask[i] \in DOMAIN vthread_contexts
        /\ vthread_contexts[wtask[i]].suspend_reason = "IO_WAIT"
        /\ poller[io_call[i][1]] # << >>
        /\ stats.total_io_suspended = 0

\* C28: on a scheduler that is running and is not stopped, a task that is in
\* a run queue is eventually resumed, also when the worker of that queue
\* parks after the push because its pop came before it.
C28_QueuedEventuallyResumed ==
    \A h \in Handles :
        (\E c \in Cores : Count(h, queues[c]) > 0) ~> (resumes[h] > 0)

\* a worker parked on a queue that holds a task never resumed yet, the other
\* worker parked too
C28_ParkedWithWork ==
    \E i \in Cores :
        /\ \A j \in Cores : wpc[j] = "sleep"
        /\ queues[i] # << >>
        /\ resumes[Head(queues[i])] = 0

\* C29: the load gauge of every core stays non-negative: no decrement is
\* applied to a gauge at 0, also when a task enqueued on one core is stolen
\* and completes on another.
C29_GaugeNonNegative == \A i \in Cores : core_loads[i] >= 0

\* C30: once every scheduled task has completed, with no task in a run
\* queue, executing or in the registry, the load gauges add up to 0, also for
\* tasks that yielded or awaited I/O on the way.
C30_GaugesReturnToZero ==
    (/\ running
     /\ scheduling = {}
     /\ \A h \in Handles : frame[h] \in {"unborn", "final"}
     /\ \A c \in Cores : queues[c] = << >>
     /\ \A i \in Cores : wpc[i] \in {"idle", "sleep"}
     /\ io_operations = EmptyMap)
        => SumOver(core_loads, Cores) = 0

\* the nodes linked behind node n, in order (at most k of them)
RECURSIVE ChainFrom(_, _)
ChainFrom(n, k) ==
    IF k = 0 \/ q_next[n] = NoNode THEN << >>
    ELSE << q_next[n] >> \o ChainFrom(q_next[n], k - 1)

\* the tasks a pop can still reach from head_ (node h + 1 carries task h)
Reachable == {ChainFrom(q_head, MaxPush)[k] - 1 : k \in 1 .. Len(ChainFrom(q_head, MaxPush))}

\* C31: with concurrent producers and one consumer no task is returned by
\* two pops; once no push and no pop is under way every pushed task has
\* either been returned once or is still linked behind head_; while a producer
\* stands between its tail swap and its link store on the head node, pop finds
\* a null next and fails; and as soon as head_ has a successor, pop returns a
\* pushed task that has not been returned before.
C31_EachPushedPoppedOnce ==
    /\ \A h \in QTasks : q_taken[h] <= 1
    /\ \A h \in QTasks : q_taken[h] = 1 => h \in pushed
    /\ ((\A p \in Producers : prod_pc[p] = "idle") /\ pop_pc["owner"] = "idle")
          => \A h \in pushed : (q_taken[h] = 1) # (h \in Reachable)
    /\ \A p \in Producers :
          (prod_pc[p] = "link" /\ prod_prev[p] = q_head) => q_next[q_head] = NoNode
    /\ (pop_pc["owner"] = "idle" /\ q_next[q_head] # NoNode)
          => /\ q_value[q_next[q_head]] \in pushed
             /\ q_taken[q_value[q_next[q_head]]] = 0

\* the consumer has returned a task and now stands before a head node whose
\* link a producer has not stored yet, while the other producer is in its
\* window too
C31_PopInWindow ==
    /\ q_order # << >>
    /\ \A p \in Producers : prod_pc[p] = "link"
    /\ \E p \in Producers : prod_prev[p] = q_head

\* C32: the tasks one producer pushed (it pushes them in increasing order)
\* are returned by pop in that order, whatever the other producer pushes in
\* between.
C32_FifoPerProducer ==
    \A i \in 1 .. Len(q_order), j \in 1 .. Len(q_order) :
        (i < j /\ ProducerOf(q_order[i]) = ProducerOf(q_order[j])) => q_order[i] < q_order[j]

\* both tasks of producer "a" have been returned, the task of producer "b",
\* pushed in between, ahead of them
C32_InterleavedProducers == q_order = << 2, 1, 3 >>

\* every pair << a, b >> such that some call takes b while it holds a
LockOrder ==
    UNION {UNION {IF LockScript(op)[k][1] = "acq"
                  THEN {<< a, LockScript(op)[k][2] >> : a \in HeldAfter(LockScript(op), k - 1)}
                  ELSE {} : k \in 1 .. Len(LockScript(op))}
           : op \in UNION {OpsOf(u) : u \in Threads}}
Mutexes == {"G", "R", "V", "S", "W0", "W1"}
RECURSIVE ReachableLocks(_, _)
ReachableLocks(S, k) ==
    IF k = 0 THEN S
    ELSE ReachableLocks(S \cup {pr[2] : pr \in {q \in LockOrder : q[1] \in S}}, k - 1)

\* C33: no thread holds the context mutex when it calls the Poller or takes
\* a mutex (the registry mutex in particular); the order in which the calls
\* take the mutexes has no cycle; and whenever some thread is inside a call,
\* some thread inside a call can take its next step: there is no deadlock.
C33_NoDeadlock ==
    /\ \A t \in Threads :
          (InCall(t) /\ NextEvent(t)[1] \in {"acq", "poller"}) => "V" \notin Held(t)
    /\ \A m \in Mutexes :
          m \notin ReachableLocks({pr[2] : pr \in {q \in LockOrder : q[1] = m}}, 6)
    /\ (\E t \in Threads : InCall(t)) => \E t \in Threads : CanStep(t)

\* stop() holds the global mutex and waits for a worker mutex that a parked
\* worker is about to release, while the polling thread holds the registry
\* mutex inside resume_from_io and a worker waits for it in suspend_for_io
C33_Contended ==
    /\ "G" \in Held("api")
    /\ "R" \in Held("bg")
    /\ \E t \in {"w0", "w1"} : InCall(t) /\ lk_op[t][1] = "suspend_for_io" /\ ~CanStep(t)

\* C34: whenever no worker is executing a task, context_switches equals the
\* sum of the executed counts of the workers, because every execution, of a
\* task popped from the worker's own queue or of a stolen one, adds 1 to both.
C34_SwitchesMatchExecuted ==
    /\ (\A i \in Cores : wpc[i] \notin {"run", "ret"})
          => stats.context_switches = SumOver(stats.per_core_executed, Cores)

\* C35: a worker that takes a task and puts it at the back of its own queue
\* in the same pass, because the pre-resume check asked for a preemption, has
\* resumed the task in between.
C35_PreemptStillResumes ==
    [][\A i \in Cores, h \in Handles :
          (/\ wpc[i] = "idle" /\ wpc'[i] = "idle"
           /\ stats'.per_core_executed[i] = stats.per_core_executed[i] + 1
           /\ queues'[i] # << >>
           /\ queues'[i][Len(queues'[i])] = h
           /\ queues[wvictim'[i]] # << >>
           /\ h = Head(queues[wvictim'[i]]))
              => resumes'[h] = resumes[h] + 1
      ]_vars

\* C36: the poll request that suspend_for_io registers for a socket operation
\* completes on the readiness the operation waits for: readable for a read or
\* accept (which awaits with POLLIN), writable for a write (which awaits with
\* POLLOUT).
C36_MaskKeepsMeaning ==
    running =>
        \A h \in Handles, a \in IoAwaits :
            LET r   == suspend_for_io(St, h, a[1], a[2], FALSE)
                req == r.poller[a[1]][Len(r.poller[a[1]])]
            IN /\ a[2] = POLLIN  => poll_res(req, POLLIN) = POLLIN
               /\ a[2] = POLLOUT => poll_res(req, POLLOUT) = POLLOUT

\* C37: notify_completion(h) for a handle with a context removes that context
\* and changes nothing else; for a handle without a context, the null handle
\* included, it changes nothing; so a second call for the same handle changes
\* nothing.
C37_NotifyIdempotent ==
    \A h \in Handles \cup {NoHandle} :
        LET first  == notify_completion(St, h)
            second == notify_completion(first, h)
        IN /\ h \in DOMAIN vthread_contexts
                 => first = [St EXCEPT !.vthread_contexts = MapDel(@, h)]
           /\ h \notin DOMAIN vthread_contexts => first = St
           /\ h \notin DOMAIN first.vthread_contexts
           /\ second = first

\* a task has run to co_return: its notify_completion has removed the context
\* that the worker made when it mounted the task
C37_Notified ==
    \E h \in Handles :
        /\ notified[h] = 1 /\ resumes[h] > 0
        /\ h \notin DOMAIN vthread_contexts
        /\ destroys[h] = 0

\* the unsigned 32-bit number a gauge holds, as its two 16-bit halves
Halves(x) == << (x \div 65536) % 65536, x % 65536 >>

\* a > b as unsigned 32-bit numbers
Above(a, b) ==
    \/ Halves(a)[1] > Halves(b)[1]
    \/ Halves(a)[1] = Halves(b)[1] /\ Halves(a)[2] > Halves(b)[2]

\* a > b + 2 as numbers: a is above b and is neither b + 1 nor b + 2
AboveByThree(a, b) == Above(a, b) /\ a - b \notin {1, 2}

\* C38: one balance_load step, with mx the first core of maximal load and mn
\* the first core of minimal load: when L[mx] > L[mn] + 2 and the queue of mx
\* holds a task, the head of that queue goes to the back of the queue of mn,
\* L[mx] falls by 1 and L[mn] rises by 1, the sum of the loads and the number
\* of queued tasks stay, and nothing else changes; otherwise nothing changes
\* at all.
C38_BalanceMovesOne ==
    LET mx == CHOOSE c \in Cores :
                 /\ \A d \in Cores : ~Above(core_loads[d], core_loads[c])
                 /\ \A d \in Cores : core_loads[d] = core_loads[c] => c <= d
        mn == CHOOSE c \in Cores :
                 /\ \A d \in Cores : ~Above(core_loads[c], core_loads[d])
                 /\ \A d \in Cores : core_loads[d] = core_loads[c] => c <= d
        r  == balance_load(St)
    IN IF AboveByThree(core_loads[mx], core_loads[mn]) /\ queues[mx] # << >>
       THEN /\ mx # mn
            /\ r.queues = [queues EXCEPT ![mx] = Tail(@), ![mn] = Append(@, Head(queues[mx]))]
            /\ r.core_loads = [core_loads EXCEPT ![mx] = @ - 1, ![mn] = @ + 1]
            /\ Above(core_loads[mx], r.core_loads[mx])
            /\ Above(r.core_loads[mn], core_loads[mn])
            /\ SumOver(r.core_loads, Cores) = SumOver(core_loads, Cores)
            /\ \A h \in Handles :
                  SumOver([c \in Cores |-> Count(h, r.queues[c])], Cores)
                     = SumOver([c \in Cores |-> Count(h, queues[c])], Cores)
            /\ r = [St EXCEPT !.queues = r.queues, !.core_loads = r.core_loads]
       ELSE r = St

\* a worker has run a balance_load that moved a task off another core's queue
C38_Migrated ==
    \E i \in Cores :
        /\ wvictim[i] # i
        /\ queues[wvictim[i]] = << >>
        /\ \E c \in Cores : c # wvictim[i] /\ queues[c] # << >>

\* C39: a schedule or schedule_with_affinity call that has passed its running
\* check and has its wake_worker call still to make (it is in scheduling)
\* never finds that stop() has already cleared the queues, the gauges and the
\* per-worker mutexes (stop_pc = "done").
C39_StructuresOutliveCall == scheduling # {} => stop_pc # "done"

====
